---- MODULE Spec2Model ----
(***************************************************************************)
(* Model of the kronosnet compression dispatcher, libknet/compress.c:      *)
(* the static model table, the process-wide shlib_rwlock, the refcounted   *)
(* lazy load/unload of back-ends, the rate-limited retry after a load      *)
(* failure, and the entry points compress_init, compress_cfg, compress,    *)
(* decompress and compress_fini called by several threads on several       *)
(* handles.                                                                *)
(*                                                                         *)
(* Time is counted in ticks of TickSec seconds of CLOCK_MONOTONIC.         *)
(***************************************************************************)
EXTENDS Integers, FiniteSets, Sequences, TLC

----------------------------------------------------------------------------
(* Bounds of the model *)

NumThreads == 2
NumHandles == 2
MaxCalls == 4
MaxTime == 3

Threads == 1..NumThreads
Handles == 1..NumHandles

----------------------------------------------------------------------------
(* Program constants *)

\* seconds per tick of the model's clock
TickSec == 5
\* compress.c:190, 10000000000 ns
RateLimitSec == 10
\* libknet.h
KNET_MAX_PACKET_SIZE == 65536
KNET_COMPRESS_THRESHOLD == 100
KNET_MAX_COMPRESS_METHODS == 255

----------------------------------------------------------------------------
(* The model table, compress_modules_cmds[] *)

\* the rows before the NULL/255 sentinel; a row's index equals its model_id
TableNames == << "none", "zlib", "lz4", "lz4hc", "lzo2", "lzma", "bzip2" >>
Rows == 0..(Len(TableNames) - 1)
model_name(idx) == IF idx + 1 <= Len(TableNames) THEN TableNames[idx + 1] ELSE "NULL"
model_id(idx) == idx

\* the build: which of BUILDCOMPZLIB .. BUILDCOMPBZIP2 are defined
BuiltRows == {1, 4}
\* a build with BUILDCOMPLZ4 alone: the rows lz4 and lz4hc
Lz4Rows == {2, 3}

VARIABLE built          \* the build: the rows with built_in = 1

built_in(idx) == IF idx \in built THEN 1 ELSE 0

\* the unload_lib of each row: lz4 and lz4hc have one between them
unload_lib(idx) ==
    CASE idx = 1 -> "zlib_unload_lib"
      [] idx \in {2, 3} -> "lz4_unload_lib"
      [] idx = 4 -> "lzo2_unload_lib"
      [] idx = 5 -> "lzma_unload_lib"
      [] idx = 6 -> "bzip2_unload_lib"
      [] OTHER -> "NULL"

\* only the lzo2 row carries is_init / init / fini hooks
HasInitHooks(idx) == idx = 4

RECURSIVE GetModelFrom(_, _)
GetModelFrom(idx, model) ==
    IF model_name(idx) = "NULL" THEN -1
    ELSE IF model_name(idx) = model THEN model_id(idx)
    ELSE GetModelFrom(idx + 1, model)
get_model(model) == GetModelFrom(0, model)

RECURSIVE GetMaxModelFrom(_)
GetMaxModelFrom(idx) ==
    IF model_name(idx) = "NULL" THEN idx - 1 ELSE GetMaxModelFrom(idx + 1)
get_max_model == GetMaxModelFrom(0)
max_model == get_max_model

\* is_valid_model without the built_in test
is_valid_model_AnyRow(compress_model) ==
    IF compress_model \in Rows THEN 0 ELSE -1

RECURSIVE IsValidModelFrom(_, _)
IsValidModelFrom(idx, compress_model) ==
    IF model_name(idx) = "NULL" THEN -1
    ELSE IF compress_model = model_id(idx) /\ built_in(idx) = 1 THEN 0
    ELSE IsValidModelFrom(idx + 1, compress_model)
is_valid_model(compress_model) == IsValidModelFrom(0, compress_model)

\* the back-ends' level validators: accept or reject
ValidLevels == {1}
val_level(compress_model, compress_level) ==
    IF compress_level \in ValidLevels THEN 0 ELSE -1

----------------------------------------------------------------------------
(* Inputs *)

CfgNames == {"none", "zlib", "lz4", "lz4hc", "lzo2", "lzma", "bogus"}
CfgLevels == {1, 99}
CfgThresholds == {0, KNET_MAX_PACKET_SIZE, KNET_MAX_PACKET_SIZE + 1}
WireIds == {0, 1, 2, 3, 4, 5, 200}

----------------------------------------------------------------------------
VARIABLES
    loaded,             \* compress_modules_cmds[idx].loaded
    libref,             \* compress_modules_cmds[idx].libref
    last_load_failure,  \* static struct timespec, 0 = never
    now,                \* CLOCK_MONOTONIC
    wlock,              \* shlib_rwlock: the thread holding it in write mode, or 0
    rlock,              \* shlib_rwlock: the holders in read mode
    alive,              \* the handles between compress_init and compress_fini
    slot,               \* knet_h->compress_int_data[idx] != NULL
    hcfg,               \* knet_h->compress_model / compress_level / compress_threshold
    pc,                 \* each thread's position
    th,                 \* the handle of the thread's call
    tm,                 \* cmp_model of the thread's call
    top,                \* the entry point the thread is in
    tlvl,               \* compress_level of the thread's compress_cfg request
    terr,               \* savederrno of a failed check_init_lib in compress_cfg
    lastRet,            \* the call that returned in the last step, and its result
    tchg,               \* history: libref increments made by the thread's call
    ncalls,             \* entry-point calls started so far
    charges,            \* history: libref increments made on behalf of each handle
    lastFail,           \* history: time of the most recent load_lib failure
    tload,              \* history: the thread's call ran load_lib, until init ends
    lastReq             \* the level and threshold compress_cfg looked at in the last step

vars == << built, loaded, libref, last_load_failure, now, wlock, rlock, alive, slot,
           hcfg, pc, th, tm, top, tlvl, terr, lastRet, tchg, ncalls, charges,
           lastFail, tload, lastReq >>


NoRet == [op |-> "none", m |-> 0, r |-> "none"]
NoReq == [compress_level |-> -1, compress_threshold |-> -1]
ZeroCfg == [compress_model |-> 0, compress_level |-> 0, compress_threshold |-> 0]

\* the process before its first call, whatever the build
Start ==
    /\ loaded = [i \in Rows |-> FALSE]
    /\ libref = [i \in Rows |-> 0]
    /\ last_load_failure = 0
    /\ now = 1
    /\ wlock = 0
    /\ rlock = {}
    /\ alive = [h \in Handles |-> TRUE]
    /\ slot = [h \in Handles |-> [i \in Rows |-> FALSE]]
    /\ hcfg = [h \in Handles |-> ZeroCfg]
    /\ pc = [t \in Threads |-> "idle"]
    /\ th = [t \in Threads |-> 0]
    /\ tm = [t \in Threads |-> 0]
    /\ top = [t \in Threads |-> "none"]
    /\ tlvl = [t \in Threads |-> 0]
    /\ terr = [t \in Threads |-> "none"]
    /\ lastRet = NoRet
    /\ tchg = [t \in Threads |-> 0]
    /\ ncalls = 0
    /\ charges = [h \in Handles |-> [i \in Rows |-> 0]]
    /\ lastFail = 0
    /\ tload = [t \in Threads |-> FALSE]
    /\ lastReq = NoReq

Init == built = BuiltRows /\ Start

\* the same with the lz4 build
InitLz4 == built = Lz4Rows /\ Start

----------------------------------------------------------------------------
(* shlib_rwlock *)

CanRdLock == wlock = 0
CanWrLock == wlock = 0 /\ rlock = {}
Holds(t) == wlock = t \/ t \in rlock

\* the holder that is no thread: the lock's count after an unlock took it
\* below the holds there are
Nobody == 0

\* pthread_rwlock_unlock by a thread that holds the lock in neither mode is
\* undefined: it may do nothing, give up the hold of the writer or of one
\* reader, or leave the lock's count wrong, so that the lock stays taken with
\* no thread to release it
StrayUnlock ==
    \/ UNCHANGED << wlock, rlock >>
    \/ wlock # 0 /\ wlock' = 0 /\ UNCHANGED rlock
    \/ \E r \in rlock \ {Nobody} : rlock' = rlock \ {r} /\ UNCHANGED wlock
    \/ rlock' = rlock \cup {Nobody} /\ UNCHANGED wlock

Unlock(t) ==
    IF wlock = t THEN wlock' = 0 /\ UNCHANGED rlock
    ELSE IF t \in rlock THEN rlock' = rlock \ {t} /\ UNCHANGED wlock
    ELSE StrayUnlock

----------------------------------------------------------------------------
(* Helpers *)

InFlight(t) == pc[t] # "idle"
Busy(h, ops) == \E u \in Threads : InFlight(u) /\ th[u] = h /\ top[u] \in ops

\* timespec_diff(last_load_failure, clock_now, &timediff), in seconds
timediff == (now - last_load_failure) * TickSec

\* the lzo2 hooks: is_init reports the handle's state, init allocates it
is_init(h, m) == IF slot[h][m] THEN 1 ELSE 0

\* the fast path without the look at the handle's slot
FastPath_AnyHandle(h, m) == loaded[m]

\* compress.c:162-172: loaded and initialised for this handle
FastPath(h, m) ==
    /\ loaded[m]
    /\ IF HasInitHooks(m) THEN is_init(h, m) = 1 ELSE slot[h][m]

\* the rate limit applied whatever the caller passes
RateLimited_AnyCaller(rate_limit) ==
    /\ last_load_failure # 0
    /\ timediff < RateLimitSec

\* compress.c:185-196
RateLimited(rate_limit) ==
    /\ rate_limit = 1
    /\ last_load_failure # 0
    /\ timediff < RateLimitSec

\* where a thread goes when check_init_lib returned 0 with the lock held
AfterInit(t, op) == IF op = "cfg" THEN "cfg_val" ELSE "xform"

\* the thread's call of entry point op for model m returns r
Return(t, op, m, r) ==
    /\ pc' = [pc EXCEPT ![t] = "idle"]
    /\ lastRet' = [op |-> op, m |-> m, r |-> r]
    /\ tchg' = [tchg EXCEPT ![t] = 0]
    /\ terr' = [terr EXCEPT ![t] = "none"]
    /\ th' = [th EXCEPT ![t] = 0]
    /\ tm' = [tm EXCEPT ![t] = 0]
    /\ top' = [top EXCEPT ![t] = "none"]
    /\ tlvl' = [tlvl EXCEPT ![t] = 0]
    /\ tload' = [tload EXCEPT ![t] = FALSE]

\* the thread's call goes on at position p
Goto(t, p, h, m, op) ==
    /\ pc' = [pc EXCEPT ![t] = p]
    /\ th' = [th EXCEPT ![t] = h]
    /\ tm' = [tm EXCEPT ![t] = m]
    /\ top' = [top EXCEPT ![t] = op]
    /\ lastRet' = NoRet
    /\ UNCHANGED << tlvl, terr, tchg, tload >>

\* check_init_lib failed: compress_cfg goes to out_unlock, the others return
Fail(t, op, h, m, r) ==
    IF op = "cfg"
    THEN /\ pc' = [pc EXCEPT ![t] = "cfg_err"]
         /\ th' = [th EXCEPT ![t] = h]
         /\ tm' = [tm EXCEPT ![t] = m]
         /\ top' = [top EXCEPT ![t] = op]
         /\ terr' = [terr EXCEPT ![t] = r]
         /\ lastRet' = NoRet
         /\ tload' = [tload EXCEPT ![t] = FALSE]
         /\ UNCHANGED << tlvl, tchg >>
    ELSE Return(t, op, m, r)

----------------------------------------------------------------------------
(* check_init_lib, compress.c:139-232 *)

\* compress.c:145-202: the read lock, the fast path, the rate limit
CheckInitLibRd(t, h, m, op, rate_limit) ==
    \/ \* pthread_rwlock_rdlock fails
       /\ Fail(t, op, h, m, "ELOCK")
       /\ UNCHANGED << wlock, rlock >>
    \/ \* already loaded and initialised: return 0 holding the read lock
       /\ CanRdLock
       /\ FastPath(h, m)
       /\ rlock' = rlock \cup {t}
       /\ UNCHANGED wlock
       /\ Goto(t, AfterInit(t, op), h, m, op)
    \/ \* rate limited: unlock, EAGAIN
       /\ CanRdLock
       /\ ~FastPath(h, m)
       /\ RateLimited(rate_limit)
       /\ Return(t, op, m, "EAGAIN")
       /\ UNCHANGED << wlock, rlock >>
    \/ \* unlock, go for the write lock
       /\ CanRdLock
       /\ ~FastPath(h, m)
       /\ ~RateLimited(rate_limit)
       /\ Goto(t, "cil_wr", h, m, op)
       /\ UNCHANGED << wlock, rlock >>

\* check_init_lib marking the row loaded before it knows that load_lib
\* succeeded
CilWr_LoadedFirst(t) ==
    /\ pc[t] = "cil_wr"
    /\ lastReq' = NoReq
    /\ UNCHANGED built
    /\ \/ \* pthread_rwlock_wrlock fails
          /\ Fail(t, top[t], th[t], tm[t], "ELOCK")
          /\ UNCHANGED << wlock, rlock, loaded, last_load_failure, lastFail >>
       \/ \* load_lib fails
          /\ CanWrLock
          /\ ~loaded[tm[t]]
          /\ last_load_failure' = now
          /\ lastFail' = now
          /\ Fail(t, top[t], th[t], tm[t], "ELOAD")
          /\ loaded' = [loaded EXCEPT ![tm[t]] = TRUE]
          /\ UNCHANGED << wlock, rlock >>
       \/ \* load_lib succeeds, or the library is loaded already
          /\ CanWrLock
          /\ wlock' = t
          /\ loaded' = [loaded EXCEPT ![tm[t]] = TRUE]
          /\ pc' = [pc EXCEPT ![t] = "cil_init"]
          /\ tload' = [tload EXCEPT ![t] = ~loaded[tm[t]]]
          /\ lastRet' = NoRet
          /\ UNCHANGED << rlock, last_load_failure, lastFail, th, tm, top, tlvl, terr, tchg >>
    /\ UNCHANGED << libref, now, alive, slot, hcfg, ncalls, charges >>

\* compress.c:203-218: the write lock and load_lib
CilWr(t) ==
    /\ pc[t] = "cil_wr"
    /\ lastReq' = NoReq
    /\ UNCHANGED built
    /\ \/ \* pthread_rwlock_wrlock fails
          /\ Fail(t, top[t], th[t], tm[t], "ELOCK")
          /\ UNCHANGED << wlock, rlock, loaded, last_load_failure, lastFail >>
       \/ \* load_lib fails
          /\ CanWrLock
          /\ ~loaded[tm[t]]
          /\ last_load_failure' = now
          /\ lastFail' = now
          /\ Fail(t, top[t], th[t], tm[t], "ELOAD")
          /\ UNCHANGED << wlock, rlock, loaded >>
       \/ \* load_lib succeeds, or the library is loaded already
          /\ CanWrLock
          /\ wlock' = t
          /\ loaded' = [loaded EXCEPT ![tm[t]] = TRUE]
          /\ pc' = [pc EXCEPT ![t] = "cil_init"]
          /\ tload' = [tload EXCEPT ![t] = ~loaded[tm[t]]]
          /\ lastRet' = NoRet
          /\ UNCHANGED << rlock, last_load_failure, lastFail, th, tm, top, tlvl, terr, tchg >>
    /\ UNCHANGED << libref, now, alive, slot, hcfg, ncalls, charges >>

\* compress.c:220-231: the init hook or the sentinel, and libref++
CilInit(t) ==
    /\ pc[t] = "cil_init"
    /\ lastReq' = NoReq
    /\ UNCHANGED built
    /\ \/ \* init fails (it allocates only when the slot is empty)
          /\ HasInitHooks(tm[t])
          /\ ~slot[th[t]][tm[t]]
          /\ Unlock(t)
          /\ Fail(t, top[t], th[t], tm[t], "EINIT")
          /\ UNCHANGED << slot, libref, charges >>
       \/ /\ slot' = [slot EXCEPT ![th[t]][tm[t]] = TRUE]
          /\ libref' = [libref EXCEPT ![tm[t]] = @ + 1]
          /\ charges' = [charges EXCEPT ![th[t]][tm[t]] = @ + 1]
          /\ tchg' = [tchg EXCEPT ![t] = @ + 1]
          /\ pc' = [pc EXCEPT ![t] = AfterInit(t, top[t])]
          /\ tload' = [tload EXCEPT ![t] = FALSE]
          /\ lastRet' = NoRet
          /\ UNCHANGED << wlock, rlock, th, tm, top, tlvl, terr >>
    /\ UNCHANGED << loaded, last_load_failure, now, alive, hcfg, ncalls, lastFail >>

----------------------------------------------------------------------------
(* compress_init, compress.c:234-247 *)

\* a new handle: knet_handle_new allocates it zeroed and calls compress_init
CompressInit(h) ==
    /\ ~alive[h]
    /\ lastReq' = NoReq
    /\ UNCHANGED built
    /\ ncalls < MaxCalls
    /\ ncalls' = ncalls + 1
    /\ IF max_model > KNET_MAX_COMPRESS_METHODS
       THEN UNCHANGED << alive, slot, hcfg, charges, last_load_failure >>
       ELSE /\ alive' = [alive EXCEPT ![h] = TRUE]
            /\ slot' = [slot EXCEPT ![h] = [i \in Rows |-> FALSE]]
            /\ hcfg' = [hcfg EXCEPT ![h] = ZeroCfg]
            /\ charges' = [charges EXCEPT ![h] = [i \in Rows |-> 0]]
            /\ last_load_failure' = 0
    /\ lastRet' = NoRet
    /\ UNCHANGED << loaded, libref, now, wlock, rlock, pc, th, tm, top, tlvl,
                    terr, tchg, lastFail, tload >>

----------------------------------------------------------------------------
(* compress_cfg, compress.c:249-315 *)

\* compress.c:260-281. knet_handle_compress holds the handle's lock in write
\* mode around compress_cfg, so no other compress_cfg or compress of the same
\* handle is in progress.
CfgCall(t, h, name) ==
    /\ pc[t] = "idle"
    /\ lastReq' = NoReq
    /\ UNCHANGED built
    /\ alive[h]
    /\ ~Busy(h, {"cfg", "compress"})
    /\ ncalls < MaxCalls
    /\ ncalls' = ncalls + 1
    /\ LET cmp_model == get_model(name) IN
       \/ /\ cmp_model < 0
          /\ Return(t, "cfg", cmp_model, "EINVAL")
          /\ UNCHANGED << wlock, rlock, hcfg >>
       \/ /\ cmp_model = 0
          /\ \E lvl \in CfgLevels :
                hcfg' = [hcfg EXCEPT ![h].compress_model = cmp_model,
                                     ![h].compress_level = lvl]
          /\ Return(t, "cfg", cmp_model, "ok")
          /\ UNCHANGED << wlock, rlock >>
       \/ /\ cmp_model > 0
          /\ built_in(cmp_model) = 0
          /\ Return(t, "cfg", cmp_model, "EINVAL")
          /\ UNCHANGED << wlock, rlock, hcfg >>
       \/ /\ cmp_model > 0
          /\ built_in(cmp_model) # 0
          /\ CheckInitLibRd(t, h, cmp_model, "cfg", 0)
          /\ UNCHANGED hcfg
    /\ UNCHANGED << loaded, libref, last_load_failure, now, alive, slot,
                    charges, lastFail >>

\* compress_cfg storing the threshold before it validates the level
CfgVal_ThresholdFirst(t) ==
    /\ pc[t] = "cfg_val"
    /\ \E lvl \in CfgLevels, thr \in CfgThresholds :
       /\ lastReq' = [compress_level |-> lvl, compress_threshold |-> thr]
       /\
          \/ /\ thr > KNET_MAX_PACKET_SIZE
             /\ Return(t, "cfg", tm[t], "EINVAL")
             /\ UNCHANGED hcfg
          \/ /\ thr <= KNET_MAX_PACKET_SIZE
             /\ hcfg' = [hcfg EXCEPT ![th[t]].compress_threshold =
                            IF thr = 0 THEN KNET_COMPRESS_THRESHOLD ELSE thr]
             /\ IF val_level(tm[t], lvl) < 0
                THEN Return(t, "cfg", tm[t], "EINVAL")
                ELSE /\ pc' = [pc EXCEPT ![t] = "cfg_commit"]
                     /\ tlvl' = [tlvl EXCEPT ![t] = lvl]
                     /\ lastRet' = NoRet
                     /\ UNCHANGED << th, tm, top, terr, tchg, tload >>
    /\ Unlock(t)
    /\ UNCHANGED << loaded, libref, last_load_failure, now, alive, slot,
                    ncalls, charges, lastFail, built >>

\* compress_cfg without the check of the threshold against the packet size
CfgVal_AnyThreshold(t) ==
    /\ pc[t] = "cfg_val"
    /\ \E lvl \in CfgLevels, thr \in CfgThresholds :
       /\ lastReq' = [compress_level |-> lvl, compress_threshold |-> thr]
       /\
          \/ /\ val_level(tm[t], lvl) < 0
             /\ Return(t, "cfg", tm[t], "EINVAL")
             /\ UNCHANGED hcfg
          \/ /\ val_level(tm[t], lvl) >= 0
             /\ hcfg' = [hcfg EXCEPT ![th[t]].compress_threshold =
                            IF thr = 0 THEN KNET_COMPRESS_THRESHOLD ELSE thr]
             /\ pc' = [pc EXCEPT ![t] = "cfg_commit"]
             /\ tlvl' = [tlvl EXCEPT ![t] = lvl]
             /\ lastRet' = NoRet
             /\ UNCHANGED << th, tm, top, terr, tchg, tload >>
    /\ Unlock(t)
    /\ UNCHANGED << loaded, libref, last_load_failure, now, alive, slot,
                    ncalls, charges, lastFail, built >>

\* compress.c:283-305: val_level, the threshold, the unlock
CfgVal(t) ==
    /\ pc[t] = "cfg_val"
    /\ \E lvl \in CfgLevels, thr \in CfgThresholds :
       /\ lastReq' = [compress_level |-> lvl, compress_threshold |-> thr]
       /\
          \/ /\ val_level(tm[t], lvl) < 0
             /\ Return(t, "cfg", tm[t], "EINVAL")
             /\ UNCHANGED hcfg
          \/ /\ val_level(tm[t], lvl) >= 0
             /\ thr > KNET_MAX_PACKET_SIZE
             /\ Return(t, "cfg", tm[t], "EINVAL")
             /\ UNCHANGED hcfg
          \/ /\ val_level(tm[t], lvl) >= 0
             /\ thr <= KNET_MAX_PACKET_SIZE
             /\ hcfg' = [hcfg EXCEPT ![th[t]].compress_threshold =
                            IF thr = 0 THEN KNET_COMPRESS_THRESHOLD ELSE thr]
             /\ pc' = [pc EXCEPT ![t] = "cfg_commit"]
             /\ tlvl' = [tlvl EXCEPT ![t] = lvl]
             /\ lastRet' = NoRet
             /\ UNCHANGED << th, tm, top, terr, tchg, tload >>
    /\ Unlock(t)
    /\ UNCHANGED << loaded, libref, last_load_failure, now, alive, slot,
                    ncalls, charges, lastFail, built >>

\* compress.c:307-314: the commit of model and level
CfgCommit(t) ==
    /\ pc[t] = "cfg_commit"
    /\ lastReq' = NoReq
    /\ UNCHANGED built
    /\ hcfg' = [hcfg EXCEPT ![th[t]].compress_model = tm[t],
                            ![th[t]].compress_level = tlvl[t]]
    /\ Return(t, "cfg", tm[t], "ok")
    /\ UNCHANGED << loaded, libref, last_load_failure, now, wlock, rlock, alive,
                    slot, ncalls, charges, lastFail >>

\* compress.c:275-281, 304-314: check_init_lib failed and gave the lock up (or
\* never had it); out_unlock unlocks all the same
CfgErrUnlock(t) ==
    /\ pc[t] = "cfg_err"
    /\ lastReq' = NoReq
    /\ UNCHANGED built
    /\ Unlock(t)
    /\ Return(t, "cfg", tm[t], terr[t])
    /\ UNCHANGED << loaded, libref, last_load_failure, now, alive, slot, hcfg,
                    ncalls, charges, lastFail >>

----------------------------------------------------------------------------
(* compress and decompress, compress.c:355-416 *)

\* compress.c:364-369. The transport calls compress only for a handle with a
\* model configured, and not during a compress_cfg of the handle.
CompressCall(t, h) ==
    /\ pc[t] = "idle"
    /\ lastReq' = NoReq
    /\ UNCHANGED built
    /\ alive[h]
    /\ hcfg[h].compress_model > 0
    /\ ~Busy(h, {"cfg"})
    /\ ncalls < MaxCalls
    /\ ncalls' = ncalls + 1
    /\ CheckInitLibRd(t, h, hcfg[h].compress_model, "compress", 0)
    /\ UNCHANGED << loaded, libref, last_load_failure, now, alive, slot, hcfg,
                    charges, lastFail >>

\* compress.c:390-407
DecompressCall(t, h, compress_model) ==
    /\ pc[t] = "idle"
    /\ lastReq' = NoReq
    /\ UNCHANGED built
    /\ alive[h]
    /\ ncalls < MaxCalls
    /\ ncalls' = ncalls + 1
    /\ \/ /\ compress_model > max_model
          /\ Return(t, "decompress", compress_model, "EINVAL")
          /\ UNCHANGED << wlock, rlock >>
       \/ /\ compress_model <= max_model
          /\ is_valid_model(compress_model) < 0
          /\ Return(t, "decompress", compress_model, "EINVAL")
          /\ UNCHANGED << wlock, rlock >>
       \/ /\ compress_model <= max_model
          /\ is_valid_model(compress_model) >= 0
          /\ CheckInitLibRd(t, h, compress_model, "decompress", 1)
    /\ UNCHANGED << loaded, libref, last_load_failure, now, alive, slot, hcfg,
                    charges, lastFail >>

\* compress.c:371-377, 409-415: the back-end's transform ends, the unlock
Xform(t) ==
    /\ pc[t] = "xform"
    /\ lastReq' = NoReq
    /\ UNCHANGED built
    /\ Unlock(t)
    /\ \E r \in {"ok", "ECODEC"} : Return(t, top[t], tm[t], r)
    /\ UNCHANGED << loaded, libref, last_load_failure, now, alive, slot, hcfg,
                    ncalls, charges, lastFail >>

----------------------------------------------------------------------------
(* compress_fini, compress.c:317-353 *)

\* compress.c:331-333
FiniTouches(idx) ==
    /\ built_in(idx) = 1
    /\ loaded[idx]
    /\ idx < KNET_MAX_COMPRESS_METHODS

\* compress.c:341-342, after libref--
FiniUnloads(idx) == FiniTouches(idx) /\ libref[idx] - 1 = 0

\* knet_handle_free stops the handle's threads, calls compress_fini and frees
\* the handle
CompressFini(h) ==
    /\ alive[h]
    /\ lastReq' = NoReq
    /\ UNCHANGED built
    /\ \E t \in Threads : pc[t] = "idle"
    /\ ~Busy(h, {"cfg", "compress", "decompress"})
    /\ ncalls < MaxCalls
    /\ ncalls' = ncalls + 1
    /\ alive' = [alive EXCEPT ![h] = FALSE]
    /\ \/ \* pthread_rwlock_wrlock fails
          /\ lastRet' = [op |-> "fini", m |-> 0, r |-> "ELOCK"]
          /\ UNCHANGED << slot, libref, loaded >>
       \/ /\ CanWrLock
          /\ lastRet' = [op |-> "fini", m |-> 0, r |-> "ok"]
          /\ slot' = [slot EXCEPT ![h] =
                        [i \in Rows |-> IF FiniTouches(i) THEN FALSE ELSE @[i]]]
          /\ libref' = [i \in Rows |->
                          IF FiniTouches(i) THEN libref[i] - 1 ELSE libref[i]]
          /\ loaded' = [i \in Rows |->
                          IF FiniUnloads(i) THEN FALSE ELSE loaded[i]]
    /\ UNCHANGED << last_load_failure, now, wlock, rlock, hcfg, pc, th, tm, top,
                    tlvl, terr, tchg, charges, lastFail, tload >>

----------------------------------------------------------------------------
(* The clock *)

\* The clock is read only to stamp a load failure and to measure the time
\* since one, so it is left at its start until the first failure.
Tick ==
    /\ now < MaxTime
    /\ lastReq' = NoReq
    /\ UNCHANGED built
    /\ lastFail # 0
    /\ now' = now + 1
    /\ lastRet' = NoRet
    /\ UNCHANGED << loaded, libref, last_load_failure, wlock, rlock, alive, slot,
                    hcfg, pc, th, tm, top, tlvl, terr, tchg, ncalls, charges,
                    lastFail, tload >>

----------------------------------------------------------------------------
Next ==
    \/ Tick
    \/ \E h \in Handles : CompressInit(h)
    \/ \E h \in Handles : CompressFini(h)
    \/ \E t \in Threads, h \in Handles, name \in CfgNames : CfgCall(t, h, name)
    \/ \E t \in Threads, h \in Handles : CompressCall(t, h)
    \/ \E t \in Threads, h \in Handles, id \in WireIds : DecompressCall(t, h, id)
    \/ \E t \in Threads : CilWr(t)
    \/ \E t \in Threads : CilInit(t)
    \/ \E t \in Threads : CfgVal(t)
    \/ \E t \in Threads : CfgCommit(t)
    \/ \E t \in Threads : CfgErrUnlock(t)
    \/ \E t \in Threads : Xform(t)

Spec == Init /\ [][Next]_vars

\* a step of a call in progress that a scheduled thread takes: the back-end
\* operations end, and pthread_rwlock_wrlock returns once the lock is free
Proceeds(t) ==
    \/ CanWrLock /\ CilWr(t)
    \/ CilInit(t)
    \/ CfgVal(t)
    \/ CfgCommit(t)
    \/ CfgErrUnlock(t)
    \/ Xform(t)

\* every thread is scheduled
LiveSpec == Spec /\ \A t \in Threads : WF_vars(Proceeds(t))

\* the lz4 build
SpecLz4 == InitLz4 /\ [][Next]_vars

----------------------------------------------------------------------------
(* Claims *)

\* a thread is inside the back-end's compress or decompress of row m
InTransform(t, m) == pc[t] = "xform" /\ tm[t] = m

\* C1: while a thread is inside a back-end's compress or decompress for a
\* model, that model's library is loaded: no compress_fini unloads it before
\* the transform returns.
C1_LoadedDuringTransform ==
    \A t \in Threads, m \in Rows : InTransform(t, m) => loaded[m]

\* the step is a step of thread t's call
StepOf(t) == pc'[t] # pc[t]

\* the step returns from entry point op
Returns(op) == lastRet'.op = op /\ lastRet' # NoRet

\* C2: whenever a row's libref is 0, no live handle has a non-null
\* compress_int_data slot for that row.
C2_NoSlotWithoutRef ==
    \A m \in Rows, h \in Handles :
        libref[m] = 0 => ~(alive[h] /\ slot[h][m])

\* the step is a compress_fini of handle h that got the write lock
FiniStep(h) == alive[h] /\ ~alive'[h] /\ lastRet'.r = "ok"

\* C3: compress_fini of a handle decrements libref by exactly one for every
\* model the handle charged and leaves libref and loaded alone for every
\* model it never charged.
C3_FiniReleasesOwnCharges ==
    [][\A h \in Handles : FiniStep(h) =>
          \A m \in Rows :
             IF charges[h][m] > 0
             THEN libref'[m] = libref[m] - 1
             ELSE libref'[m] = libref[m] /\ loaded'[m] = loaded[m]]_vars

\* the step is thread t's compress_cfg returning an error from val_level or
\* from the threshold check
CfgRejects(t) == pc[t] = "cfg_val" /\ pc'[t] = "idle" /\ lastRet'.r = "EINVAL"

\* C4: a compress_cfg that fails after check_init_lib succeeded gives back
\* the charge the call took: libref and the handle's slot are as before it.
C4_RejectedCfgReleasesCharge ==
    [][\A t \in Threads : (CfgRejects(t) /\ tchg[t] > 0) =>
          /\ libref'[tm[t]] = libref[tm[t]] - tchg[t]
          /\ ~slot'[th[t]][tm[t]]]_vars

C6_RefImpliesLoaded ==
    \A m \in Rows : libref[m] > 0 => loaded[m]

\* loaded and initialised for the handle, as the claims say it
Initialised(h, m) == loaded[m] /\ slot[h][m]

\* the step starts a call of thread t that does not return at once
Starts(t, ops) == pc[t] = "idle" /\ pc'[t] # "idle" /\ top'[t] \in ops

InWindow == lastFail # 0 /\ (now - lastFail) * TickSec < RateLimitSec

tables == << loaded, libref, last_load_failure, slot >>

\* C7: within 10 seconds of a load_lib failure a decompress call for a model
\* not loaded and initialised for the handle does not get to load_lib: it
\* returns EAGAIN and changes nothing; from 10 seconds on it tries again.
C7_DecompressRateLimited ==
    [][\A t \in Threads :
          /\ (Starts(t, {"decompress"}) /\ pc'[t] = "cil_wr") => ~InWindow
          /\ (Starts(t, {"decompress"}) /\ pc'[t] = "xform")
                => Initialised(th'[t], tm'[t])
          /\ (Returns("decompress") /\ lastRet'.r = "EAGAIN")
                => InWindow /\ UNCHANGED << tables, wlock, rlock, hcfg >>]_vars

\* C8: compress_cfg and compress never return EAGAIN, and when the model is
\* not loaded and initialised for the handle they go on to the write lock
\* whatever last_load_failure holds.
C8_SendPathNotThrottled ==
    [][/\ (Returns("cfg") \/ Returns("compress")) => lastRet'.r # "EAGAIN"
       /\ \A t \in Threads :
             (Starts(t, {"cfg", "compress"}) /\ ~Initialised(th'[t], tm'[t]))
                => pc'[t] \in {"cil_wr", "cfg_err"}]_vars

\* a send-path call has just passed the check of check_init_lib at the very
\* time of a recorded load failure, and waits for the write lock
C8_Witness ==
    \E t \in Threads :
        /\ pc[t] = "cil_wr"
        /\ top[t] \in {"cfg", "compress"}
        /\ \A u \in Threads \ {t} : pc[u] = "idle"
        /\ lastRet = NoRet
        /\ last_load_failure # 0
        /\ now = last_load_failure

\* what compress_cfg and decompress must refuse
UnusableName(m) == m < 0 \/ (m > 0 /\ built_in(m) = 0)
UnusableWireId(m) == m > max_model \/ m \notin Rows \/ built_in(m) = 0

\* C9: a compress_cfg naming an unknown or not built-in model and a
\* decompress of an id above max_model or of a not built-in row return EINVAL
\* at once and change nothing, no call is ever in progress for such a row,
\* and the rows not built in stay unloaded with libref 0.
C9_UnusableModelRejected ==
    /\ [](\A t \in Threads : pc[t] # "idle" =>
             tm[t] \in Rows /\ built_in(tm[t]) = 1)
    /\ [](\A m \in Rows : built_in(m) = 0 => ~loaded[m] /\ libref[m] = 0)
    /\ [][(\/ Returns("cfg") /\ UnusableName(lastRet'.m)
           \/ Returns("decompress") /\ UnusableWireId(lastRet'.m))
             => /\ lastRet'.r = "EINVAL"
                /\ UNCHANGED << tables, wlock, rlock, hcfg, pc >>]_vars

\* a decompress of an unusable id was refused while a library was in use
C9_Witness ==
    /\ lastRet.op = "decompress"
    /\ UnusableWireId(lastRet.m)
    /\ lastRet.r = "EINVAL"
    /\ \E m \in Rows : loaded[m] /\ libref[m] > 0

\* C10: a compress_cfg that returns an error leaves the handle's
\* compress_model, compress_level and compress_threshold as they were; they
\* are written only by a call that returns success.
C10_CfgCommitsAtomically ==
    [][/\ (Returns("cfg") /\ lastRet'.r # "ok") => hcfg' = hcfg
       /\ \A t \in Threads :
             (pc[t] = "cfg_commit" /\ StepOf(t)) => lastRet'.r = "ok"
       /\ \A h \in Handles :
             hcfg'[h] # hcfg[h] =>
                \/ Returns("cfg") /\ lastRet'.r = "ok"
                \/ \E t \in Threads :
                      pc[t] = "cfg_val" /\ pc'[t] = "cfg_commit" /\ th[t] = h
                \/ ~alive[h] /\ alive'[h]]_vars

\* a compress_cfg of a built-in model was rejected for its level or its
\* threshold on a handle that has a model configured
C10_Witness ==
    /\ lastRet.op = "cfg"
    /\ lastRet.r = "EINVAL"
    /\ lastRet.m > 0
    /\ built_in(lastRet.m) = 1
    /\ \E h \in Handles : alive[h] /\ hcfg[h].compress_model > 0

\* the step is thread t's check_init_lib failing in the init hook
InitFails(t) ==
    /\ pc[t] = "cil_init"
    /\ \/ pc'[t] = "idle" /\ lastRet'.r = "EINIT"
       \/ pc'[t] = "cfg_err" /\ terr'[t] = "EINIT"

\* C11: when the init hook fails in check_init_lib the call's partial charge
\* is released before it returns: libref and the handle's slot are as before,
\* and a library this call loaded is not left loaded with libref 0.
C11_InitFailureReleases ==
    [][\A t \in Threads : InitFails(t) =>
          /\ libref' = libref
          /\ slot' = slot
          /\ tload[t] => ~(loaded'[tm[t]] /\ libref'[tm[t]] = 0)]_vars

\* C12: libref is never negative, whatever calls are made and whichever of
\* load_lib and the init hook fail: compress_fini does not decrement a libref
\* that is 0.
C12_LibrefNonNegative ==
    \A m \in Rows : libref[m] >= 0

\* the step is thread t's compress_cfg looking at the level and the threshold
\* of its request
CfgValStep(t) == pc[t] = "cfg_val" /\ StepOf(t)

\* what compress_cfg stores for a requested threshold
StoredThreshold(thr) == IF thr = 0 THEN KNET_COMPRESS_THRESHOLD ELSE thr

\* C13: no handle's compress_threshold ever exceeds KNET_MAX_PACKET_SIZE: a
\* compress_cfg of a model other than "none" refuses a threshold above it with
\* EINVAL, stores KNET_COMPRESS_THRESHOLD for a threshold of 0 and the
\* requested value otherwise.
C13_ThresholdBounded ==
    /\ [](\A h \in Handles :
             hcfg[h].compress_threshold <= KNET_MAX_PACKET_SIZE)
    /\ [][\A t \in Threads : CfgValStep(t) =>
             /\ lastReq'.compress_threshold > KNET_MAX_PACKET_SIZE
                   => /\ Returns("cfg")
                      /\ lastRet'.r = "EINVAL"
                      /\ hcfg' = hcfg
             /\ pc'[t] = "cfg_commit"
                   => hcfg'[th[t]].compress_threshold =
                         StoredThreshold(lastReq'.compress_threshold)
             /\ pc'[t] = "cfg_commit" \/ hcfg' = hcfg]_vars

\* a handle keeps the largest threshold allowed while a second compress_cfg
\* asking for 0 has just stored the default
C13_Witness ==
    \E t \in Threads, h \in Handles :
        /\ pc[t] = "cfg_commit"
        /\ lastReq.compress_threshold = 0
        /\ hcfg[th[t]].compress_threshold = KNET_COMPRESS_THRESHOLD
        /\ hcfg[h].compress_threshold = KNET_MAX_PACKET_SIZE

\* the handles that hold a charge on row m: those whose slot for it is set
Chargers(m) == {h \in Handles : slot[h][m]}

\* the step is thread t's call charging its model to its handle
Charges(t) == pc[t] = "cil_init" /\ libref'[tm[t]] = libref[tm[t]] + 1

\* C14: two threads of one handle that both find a model not initialised and
\* both take the write path charge it once between them: a call charges a
\* model only to a handle that holds no charge on it yet, and libref of a row
\* never exceeds the number of handles that hold a charge on it.
C14_OneChargePerHandle ==
    /\ [][\A t \in Threads : Charges(t) => ~slot[th[t]][tm[t]]]_vars
    /\ [](\A m \in Rows : libref[m] <= Cardinality(Chargers(m)))

\* the step is thread t's check_init_lib calling load_lib
LoadLibRuns(t) ==
    /\ pc[t] = "cil_wr"
    /\ ~loaded[tm[t]]
    /\ \/ pc'[t] = "cil_init"
       \/ pc'[t] = "idle" /\ lastRet'.r = "ELOAD"
       \/ pc'[t] = "cfg_err" /\ terr'[t] = "ELOAD"

\* last_load_failure is set and less than 10 seconds old
RecentFailure == last_load_failure # 0 /\ timediff < RateLimitSec

\* C15: on the decompress path load_lib is never called while
\* last_load_failure is set and less than 10 seconds old, also when several
\* threads passed the rate limit under the read lock before the first of
\* them recorded a failure under the write lock.
C15_NoLoadInsideWindow ==
    [][\A t \in Threads :
          (LoadLibRuns(t) /\ top[t] = "decompress") => ~RecentFailure]_vars

\* the errors check_init_lib returns
CilErrors == {"ELOCK", "EAGAIN", "ELOAD", "EINIT"}

\* the step is thread t's check_init_lib returning 0
CilSucceeds(t) ==
    /\ pc[t] \in {"idle", "cil_init"}
    /\ pc'[t] \in {"cfg_val", "xform"}

\* the step is thread t's check_init_lib returning -1
CilFails(t) ==
    /\ pc[t] \in {"idle", "cil_wr", "cil_init"}
    /\ \/ pc'[t] = "cfg_err"
       \/ pc'[t] = "idle" /\ lastRet'.r \in CilErrors

\* C16: check_init_lib returns 0 exactly when the calling thread holds
\* shlib_rwlock on return: in read mode when the model was already loaded and
\* initialised for the handle, in write mode otherwise; on every failure the
\* thread holds the lock in no mode.
C16_LockPostcondition ==
    [][\A t \in Threads :
          /\ (CilSucceeds(t) /\ pc[t] = "idle")
                => t \in rlock' /\ wlock' # t /\ Initialised(th'[t], tm'[t])
          /\ (CilSucceeds(t) /\ pc[t] = "cil_init")
                => wlock' = t /\ t \notin rlock'
          /\ CilFails(t) => wlock' # t /\ t \notin rlock']_vars

\* the step is one in which thread t calls pthread_rwlock_unlock on a lock it
\* took in an earlier step
Unlocks(t) ==
    \/ StepOf(t) /\ pc[t] \in {"cfg_val", "cfg_err", "xform"}
    \/ InitFails(t)

\* C17: every pthread_rwlock_unlock of shlib_rwlock is made by a thread that
\* holds it, also where compress_cfg's check_init_lib failed and gave the
\* lock up or never had it; so no thread's step ends another thread's hold.
C17_UnlockOnlyByHolder ==
    [][\A t \in Threads :
          /\ Unlocks(t) => Holds(t)
          /\ StepOf(t) =>
                \A u \in Threads \ {t} :
                   /\ wlock = u => wlock' = u
                   /\ u \in rlock => u \in rlock']_vars

\* the step is thread t's load_lib failing
LoadFails(t) ==
    /\ pc[t] = "cil_wr"
    /\ ~loaded[tm[t]]
    /\ \/ pc'[t] = "idle" /\ lastRet'.r = "ELOAD"
       \/ pc'[t] = "cfg_err" /\ terr'[t] = "ELOAD"

\* the step is thread t's load_lib succeeding, under the write lock
LoadSucceeds(t, m) ==
    /\ pc[t] = "cil_wr"
    /\ tm[t] = m
    /\ pc'[t] = "cil_init"
    /\ wlock' = t

\* the step is the end of the write path of thread t's check_init_lib for
\* handle h and row m: init or the sentinel done, one libref added
ChargeStep(t, h, m) ==
    /\ pc[t] = "cil_init"
    /\ th[t] = h
    /\ tm[t] = m
    /\ CilSucceeds(t)
    /\ slot'[h][m]
    /\ libref'[m] = libref[m] + 1

\* C18: check_init_lib changes the bookkeeping only on success: loaded is set
\* only by a load_lib that succeeded, libref is incremented and the slot set
\* only once load and init both succeeded, last_load_failure is written only
\* by a load_lib that failed, and a failed load_lib leaves loaded, libref and
\* every slot as they were.
C18_BookkeepingOnSuccess ==
    [][/\ \A m \in Rows :
             (~loaded[m] /\ loaded'[m]) => \E t \in Threads : LoadSucceeds(t, m)
       /\ \A m \in Rows :
             libref'[m] > libref[m] =>
                \E t \in Threads, h \in Handles : ChargeStep(t, h, m)
       /\ \A h \in Handles, m \in Rows :
             (~slot[h][m] /\ slot'[h][m]) =>
                \E t \in Threads : ChargeStep(t, h, m)
       /\ (last_load_failure' # last_load_failure /\ alive' = alive) =>
             \E t \in Threads : LoadFails(t)
       /\ \A t \in Threads :
             LoadFails(t) =>
                /\ last_load_failure' = now
                /\ UNCHANGED << loaded, libref, slot >>]_vars

\* a load_lib has just failed while another model is loaded and charged
C18_Witness ==
    /\ lastRet.r = "ELOAD"
    /\ last_load_failure = now
    /\ ~loaded[lastRet.m]
    /\ \E m \in Rows : loaded[m] /\ libref[m] > 0

AllIdle == \A t \in Threads : pc[t] = "idle"
LockFree == wlock = 0 /\ rlock = {}

\* C19: no deadlock and no leaked lock: every call in progress returns, a
\* thread that is in no call holds shlib_rwlock in no mode, and the lock is
\* free whenever no call is in progress.
C19_NoDeadlockNoLeak ==
    /\ [](\A t \in Threads : pc[t] = "idle" => ~Holds(t))
    /\ [](AllIdle => LockFree)
    /\ \A t \in Threads : InFlight(t) ~> ~InFlight(t)

\* rows i and j are different rows with one unload_lib between them
SharesLib(i, j) == i # j /\ unload_lib(i) = unload_lib(j)

\* row j is loaded and referenced when the loop of compress_fini is at row i:
\* the rows before i have been dealt with, those after i not yet
InUseAt(i, j) ==
    IF j < i THEN loaded'[j] /\ libref'[j] > 0
             ELSE loaded[j] /\ libref[j] > 0

\* C20: lz4 and lz4hc keep separate loaded and libref but share unload_lib:
\* compress_fini does not call it for one of the two rows while the other
\* row is loaded with libref > 0 and charged to a handle other than the one
\* finalised.
C20_SharedUnloadWaits ==
    [][\A h \in Handles : FiniStep(h) =>
          \A i \in Rows, j \in Rows :
             (FiniUnloads(i) /\ SharesLib(i, j)) =>
                ~(/\ InUseAt(i, j)
                  /\ \E g \in Handles \ {h} : alive[g] /\ slot[g][j])]_vars

====
